---- MODULE Spec2Model ----
(***************************************************************************)
(* Signature fulfillment types of five-bells-condition:                    *)
(*   src/src/types/rsa-sha256.js   (class RsaSha256, type 3)                *)
(*   src/src/types/ed25519.js      (class Ed25519,   type 4)                *)
(* One fulfillment object is modelled.  Its class is fixed at              *)
(* construction (typeId); every method of the class is one action.         *)
(* Buffers are sequences of bytes; every JavaScript value is a record      *)
(* [kind, bytes] so that values of different JavaScript types compare.     *)
(***************************************************************************)
EXTENDS Integers, Sequences, FiniteSets, TLC

VARIABLES typeId, modulus, publicKey, signature, last

vars == <<typeId, modulus, publicKey, signature, last>>

(***************************************************************************)
(* Bounds of the model.                                                    *)
(***************************************************************************)
\* number of distinct fill bytes used to build buffers of one length
NumFill == 2
\* messages are all byte strings over MsgBytes of length 0..MaxMsgLen
MaxMsgLen == 1
\* payloads handed to parsePayload carry 0..MaxTrail bytes after the last field
MaxTrail == 1
\* number of distinct PSS salts the RSA signer may draw
NumSalts == 2

(***************************************************************************)
(* Program constants.                                                      *)
(***************************************************************************)
RSA_TYPE_ID == 3
RSA_FEATURE_BITMASK == 17
MIN_MODULUS_LENGTH == 128
MAX_MODULUS_LENGTH == 512
ED_TYPE_ID == 4
ED_FEATURE_BITMASK == 32
PUBKEY_LENGTH == 32
SIGNATURE_LENGTH == 64
FULFILLMENT_LENGTH == PUBKEY_LENGTH + SIGNATURE_LENGTH

(***************************************************************************)
(* JavaScript values.                                                      *)
(***************************************************************************)
Null == [kind |-> "null", bytes |-> <<>>]
Buffer(b) == [kind |-> "buffer", bytes |-> b]
\* a value that is not a Buffer (a string)
NotABuffer == [kind |-> "string", bytes |-> <<>>]
\* a PEM private key whose RSA modulus is n
Pem(n) == [kind |-> "pem", bytes |-> n]

IsBuffer(v) == v.kind = "buffer"
\* JavaScript truthiness of a field: null is falsy, every Buffer is truthy
Truthy(v) == v.kind # "null"

Buf(n, fill) == [i \in 1..n |-> fill]
LeadingZero(n, fill) == [i \in 1..n |-> IF i = 1 THEN 0 ELSE fill]

Fills == 1..NumFill

(***************************************************************************)
(* OER primitives (package oer-utils: Writer, Predictor, Reader).          *)
(* A length below 128 is one byte; otherwise 0x80 | k followed by the      *)
(* k bytes of the big-endian length.                                       *)
(***************************************************************************)
\* number of bytes of the big-endian form of n (n >= 0)
UIntSize(n) == IF n < 256 THEN 1 ELSE IF n < 65536 THEN 2 ELSE 3

\* big-endian bytes of n on k bytes
UIntBytes(n, k) == [i \in 1..k |-> (n \div (256 ^ (k - i))) % 256]

LengthPrefix(n) ==
  IF n <= 127 THEN <<n>>
  ELSE <<128 + UIntSize(n)>> \o UIntBytes(n, UIntSize(n))

\* Writer.writeVarOctetString: the bytes appended for buffer bytes b
VarOctetString(b) == LengthPrefix(Len(b)) \o b

\* Predictor.writeVarOctetString: the size added for a buffer of n bytes
PredictVarOctetString(n) == Len(LengthPrefix(n)) + n

RECURSIVE UIntValue(_, _, _)
\* big-endian value of the k bytes of data that follow position pos
UIntValue(data, pos, k) ==
  IF k = 0 THEN 0
  ELSE UIntValue(data, pos, k - 1) * 256 + data[pos + k]

\* Reader.readVarOctetString at cursor pos (bytes already consumed).
\* minimal tells whether the length prefix read is the shortest one.
readVarOctetString(data, pos) ==
  IF pos >= Len(data) THEN [ok |-> FALSE, value |-> <<>>, pos |-> pos, minimal |-> TRUE]
  ELSE
    LET b == data[pos + 1]
        k == IF b < 128 THEN 0 ELSE b - 128
        hasLen == pos + 1 + k <= Len(data)
        n == IF b < 128 THEN b
             ELSE IF hasLen THEN UIntValue(data, pos + 1, k) ELSE 0
        start == pos + 1 + k
    IN IF ~hasLen \/ start + n > Len(data)
       THEN [ok |-> FALSE, value |-> <<>>, pos |-> pos, minimal |-> TRUE]
       ELSE [ok |-> TRUE, value |-> SubSeq(data, start + 1, start + n),
             pos |-> start + n,
             minimal |-> SubSeq(data, pos + 1, start) = LengthPrefix(n)]

\* Reader.readOctetString(length) at cursor pos
readOctetString(data, pos, length) ==
  IF pos + length > Len(data) THEN [ok |-> FALSE, value |-> <<>>, pos |-> pos]
  ELSE [ok |-> TRUE, value |-> SubSeq(data, pos + 1, pos + length), pos |-> pos + length]

(***************************************************************************)
(* Cryptographic primitives, as black boxes with the functional behaviour  *)
(* of a signature scheme: a signature made with a private key verifies     *)
(* under the matching public key and message.                              *)
(***************************************************************************)
RECURSIVE SumBytes(_, _, _)
\* sum of the bytes b[lo..hi]
SumBytes(b, lo, hi) ==
  IF lo > hi THEN 0
  ELSE IF lo = hi THEN b[lo]
  ELSE SumBytes(b, lo, (lo + hi) \div 2) + SumBytes(b, ((lo + hi) \div 2) + 1, hi)

\* stand-in for a message digest: one byte
Digest(b) == (SumBytes(b, 1, Len(b)) + 31 * Len(b)) % 256

\* stand-in for SHA-256: 32 bytes
Sha256Of(d, n) == [i \in 1..32 |-> (d * i + n + i) % 256]
Sha256(b) == Sha256Of(Digest(b), Len(b))

\* nacl.sign.keyPair.fromSeed(seed).publicKey / ed25519.MakeKeypair
Ed25519PublicKey(seed) == [i \in 1..PUBKEY_LENGTH |-> (seed[i] * 3 + i) % 256]

Ed25519SignatureOf(pk, d) ==
  [i \in 1..SIGNATURE_LENGTH |-> (pk[((i - 1) % PUBKEY_LENGTH) + 1] + d + i) % 256]
Ed25519Signature(pk, msg) == Ed25519SignatureOf(pk, Digest(msg))

\* nacl.sign.detached(message, secretKey) / ed25519.Sign
Ed25519Sign(msg, seed) == Ed25519Signature(Ed25519PublicKey(seed), msg)

\* nacl.sign.detached.verify / ed25519.Verify: "true", "false", or "throw"
\* when an operand is not a byte array of the expected size
Ed25519Verify(msg, sig, pk) ==
  IF ~IsBuffer(sig) \/ ~IsBuffer(pk) THEN "throw"
  ELSE IF Len(sig.bytes) # SIGNATURE_LENGTH \/ Len(pk.bytes) # PUBKEY_LENGTH THEN "throw"
  ELSE IF sig.bytes = Ed25519Signature(pk.bytes, msg.bytes) THEN "true" ELSE "false"

Salts == 1..NumSalts

\* RSA-PSS signature of msg under the key with modulus n, drawn salt
RsaPssSignatureOf(n, d, salt) ==
  [i \in 1..Len(n) |-> (n[i] + d + 7 * salt + i) % 256]
RsaPssSignature(n, msg, salt) == RsaPssSignatureOf(n, Digest(msg), salt)

\* pem.modulusFromPrivateKey: the modulus of a PEM private key
modulusFromPrivateKey(privateKey) == Buffer(privateKey.bytes)

\* rsa.verify(modulus, message, signature): "true", "false" or "throw"
RsaVerify(mod, msg, sig) ==
  IF ~IsBuffer(mod) \/ ~IsBuffer(sig) THEN "throw"
  ELSE IF \E salt \in Salts : sig.bytes = RsaPssSignature(mod.bytes, msg.bytes, salt)
       THEN "true" ELSE "false"

(***************************************************************************)
(* class RsaSha256.  self is the record [modulus, signature] of the        *)
(* object's fields.  A method yields the fields after the call and its     *)
(* outcome: "ok", or the class of the error thrown.                        *)
(***************************************************************************)
NewRsaSha256 == [modulus |-> Null, signature |-> Null]

Throw(self, err) == [self |-> self, outcome |-> err]
Return(self) == [self |-> self, outcome |-> "ok"]

\* variant: the lower limit is off by one
RsaSha256_setPublicModulus_OffByOne(self, m) ==
  IF ~IsBuffer(m) THEN Throw(self, "TypeError")
  ELSE IF Len(m.bytes) > 0 /\ m.bytes[1] = 0 THEN Throw(self, "Error")
  ELSE IF Len(m.bytes) > MAX_MODULUS_LENGTH \/ Len(m.bytes) < MIN_MODULUS_LENGTH - 1
       THEN Throw(self, "Error")
  ELSE Return([self EXCEPT !.modulus = m])

RsaSha256_setPublicModulus(self, m) ==
  IF ~IsBuffer(m) THEN Throw(self, "TypeError")
  ELSE IF Len(m.bytes) > 0 /\ m.bytes[1] = 0 THEN Throw(self, "Error")
  ELSE IF Len(m.bytes) > MAX_MODULUS_LENGTH \/ Len(m.bytes) < MIN_MODULUS_LENGTH
       THEN Throw(self, "Error")
  ELSE Return([self EXCEPT !.modulus = m])

RsaSha256_setSignature(self, sig) ==
  IF ~IsBuffer(sig) THEN Throw(self, "TypeError")
  ELSE Return([self EXCEPT !.signature = sig])

\* rsa.sign(privateKey, message) with the drawn salt; throws on a string that
\* is no PEM private key, and on a key too short to hold the PSS encoding of
\* a 32-byte digest and a 32-byte salt
RsaSign(privateKey, message, salt) ==
  IF privateKey.kind # "pem" \/ Len(privateKey.bytes) < 32 + 32 + 2
  THEN [outcome |-> "Error", value |-> Null]
  ELSE [outcome |-> "ok",
        value |-> Buffer(RsaPssSignature(privateKey.bytes, message.bytes, salt))]

\* variant: the signature is computed but not stored
RsaSha256_sign_NoStore(self, message, privateKey, salt) ==
  LET s1 == IF ~Truthy(self.modulus)
            THEN IF privateKey.kind # "pem" THEN Throw(self, "Error")
                 ELSE RsaSha256_setPublicModulus(self, modulusFromPrivateKey(privateKey))
            ELSE Return(self)
      sg == RsaSign(privateKey, message, salt)
  IN IF s1.outcome # "ok" THEN s1
     ELSE IF sg.outcome # "ok" THEN Throw(s1.self, sg.outcome)
     ELSE Return(s1.self)

\* variant: the modulus is always taken from the private key
RsaSha256_sign_AlwaysSetsModulus(self, message, privateKey, salt) ==
  LET s1 == IF privateKey.kind # "pem" THEN Throw(self, "Error")
            ELSE RsaSha256_setPublicModulus(self, modulusFromPrivateKey(privateKey))
      sg == RsaSign(privateKey, message, salt)
  IN IF s1.outcome # "ok" THEN s1
     ELSE IF sg.outcome # "ok" THEN Throw(s1.self, sg.outcome)
     ELSE Return([s1.self EXCEPT !.signature = sg.value])

RsaSha256_sign(self, message, privateKey, salt) ==
  LET s1 == IF ~Truthy(self.modulus)
            THEN IF privateKey.kind # "pem" THEN Throw(self, "Error")
                 ELSE RsaSha256_setPublicModulus(self, modulusFromPrivateKey(privateKey))
            ELSE Return(self)
      sg == RsaSign(privateKey, message, salt)
  IN IF s1.outcome # "ok" THEN s1
     ELSE IF sg.outcome # "ok" THEN Throw(s1.self, sg.outcome)
     ELSE Return([s1.self EXCEPT !.signature = sg.value])

\* writeCommonHeader on a target that already holds the bytes out
RsaSha256_writeCommonHeader(self, out) ==
  IF ~Truthy(self.modulus) THEN [outcome |-> "MissingDataError", out |-> out]
  ELSE [outcome |-> "ok", out |-> out \o VarOctetString(self.modulus.bytes)]

RsaSha256_writeHashPayload(self, out) == RsaSha256_writeCommonHeader(self, out)

RsaSha256_parsePayload(self, data) ==
  LET r1 == readVarOctetString(data, 0)
      s1 == RsaSha256_setPublicModulus(self, Buffer(r1.value))
      r2 == readVarOctetString(data, r1.pos)
      s2 == RsaSha256_setSignature(s1.self, Buffer(r2.value))
  IN IF ~r1.ok THEN [self |-> self, outcome |-> "ParseError", pos |-> r1.pos, minimal |-> TRUE]
     ELSE IF s1.outcome # "ok"
          THEN [self |-> s1.self, outcome |-> s1.outcome, pos |-> r1.pos, minimal |-> r1.minimal]
     ELSE IF ~r2.ok
          THEN [self |-> s1.self, outcome |-> "ParseError", pos |-> r2.pos, minimal |-> r1.minimal]
     ELSE [self |-> s2.self, outcome |-> s2.outcome, pos |-> r2.pos,
           minimal |-> r1.minimal /\ r2.minimal]

\* variant: the signature is written before the common header
RsaSha256_writePayload_SignatureFirst(self, out) ==
  IF ~Truthy(self.signature) THEN [outcome |-> "MissingDataError", out |-> out]
  ELSE RsaSha256_writeCommonHeader(self, out \o VarOctetString(self.signature.bytes))

RsaSha256_writePayload(self, out) ==
  IF ~Truthy(self.signature) THEN [outcome |-> "MissingDataError", out |-> out]
  ELSE LET h == RsaSha256_writeCommonHeader(self, out)
       IN IF h.outcome # "ok" THEN h
          ELSE [outcome |-> "ok", out |-> h.out \o VarOctetString(self.signature.bytes)]

\* variant: the signature is predicted without its length prefix
RsaSha256_calculateMaxFulfillmentLength_NoPrefix(self) ==
  IF ~Truthy(self.modulus) THEN [outcome |-> "MissingDataError", size |-> 0]
  ELSE [outcome |-> "ok",
        size |-> PredictVarOctetString(Len(self.modulus.bytes))
                 + Len(self.modulus.bytes)]

RsaSha256_calculateMaxFulfillmentLength(self) ==
  IF ~Truthy(self.modulus) THEN [outcome |-> "MissingDataError", size |-> 0]
  ELSE [outcome |-> "ok",
        size |-> PredictVarOctetString(Len(self.modulus.bytes))
                 + PredictVarOctetString(Len(self.modulus.bytes))]

\* variant: the result of the verification is returned instead of thrown
RsaSha256_validate_ReturnsResult(self, message) ==
  IF ~IsBuffer(message) THEN [outcome |-> "Error", ret |-> "none"]
  ELSE LET pssResult == RsaVerify(self.modulus, message, self.signature)
       IN IF pssResult = "throw" THEN [outcome |-> "Error", ret |-> "none"]
          ELSE [outcome |-> "ok", ret |-> pssResult]

RsaSha256_validate(self, message) ==
  IF ~IsBuffer(message) THEN [outcome |-> "Error", ret |-> "none"]
  ELSE LET pssResult == RsaVerify(self.modulus, message, self.signature)
       IN IF pssResult = "throw" THEN [outcome |-> "Error", ret |-> "none"]
          ELSE IF pssResult # "true" THEN [outcome |-> "ValidationError", ret |-> "none"]
          ELSE [outcome |-> "ok", ret |-> "true"]

\* BaseSha256.generateHash: SHA-256 of what writeHashPayload feeds the hasher
RsaSha256_generateHash(self) ==
  LET h == RsaSha256_writeHashPayload(self, <<>>)
  IN IF h.outcome # "ok" THEN [outcome |-> h.outcome, hash |-> Null]
     ELSE [outcome |-> "ok", hash |-> Buffer(Sha256(h.out))]

(***************************************************************************)
(* class Ed25519.  self is the record [publicKey, signature].              *)
(***************************************************************************)
NewEd25519 == [publicKey |-> Null, signature |-> Null]

Ed25519_setPublicKey(self, pk) ==
  IF ~IsBuffer(pk) THEN Throw(self, "TypeError")
  ELSE IF Len(pk.bytes) # 32 THEN Throw(self, "Error")
  ELSE Return([self EXCEPT !.publicKey = pk])

Ed25519_setSignature(self, sig) ==
  IF ~IsBuffer(sig) THEN Throw(self, "TypeError")
  ELSE IF Len(sig.bytes) # 64 THEN Throw(self, "Error")
  ELSE Return([self EXCEPT !.signature = sig])

\* variant: the public key is derived only when none is set
Ed25519_sign_KeepKey(self, message, privateKey) ==
  IF ~IsBuffer(message) THEN Throw(self, "MissingDataError")
  ELSE IF ~IsBuffer(privateKey) THEN Throw(self, "TypeError")
  ELSE IF Len(privateKey.bytes) # 32 THEN Throw(self, "Error")
  ELSE LET s1 == IF Truthy(self.publicKey) THEN Return(self)
                 ELSE Ed25519_setPublicKey(self, Buffer(Ed25519PublicKey(privateKey.bytes)))
       IN IF s1.outcome # "ok" THEN s1
          ELSE Return([s1.self EXCEPT
                         !.signature = Buffer(Ed25519Sign(message.bytes, privateKey.bytes))])

Ed25519_sign(self, message, privateKey) ==
  IF ~IsBuffer(message) THEN Throw(self, "MissingDataError")
  ELSE IF ~IsBuffer(privateKey) THEN Throw(self, "TypeError")
  ELSE IF Len(privateKey.bytes) # 32 THEN Throw(self, "Error")
  ELSE LET s1 == Ed25519_setPublicKey(self, Buffer(Ed25519PublicKey(privateKey.bytes)))
       IN IF s1.outcome # "ok" THEN s1
          ELSE Return([s1.self EXCEPT
                         !.signature = Buffer(Ed25519Sign(message.bytes, privateKey.bytes))])

\* variant: the public key is hashed, as the SHA-256 types do
Ed25519_generateHash_Hashed(self) ==
  IF ~Truthy(self.publicKey) THEN [outcome |-> "MissingDataError", hash |-> Null]
  ELSE [outcome |-> "ok", hash |-> Buffer(Sha256(self.publicKey.bytes))]

Ed25519_generateHash(self) ==
  IF ~Truthy(self.publicKey) THEN [outcome |-> "MissingDataError", hash |-> Null]
  ELSE [outcome |-> "ok", hash |-> self.publicKey]

Ed25519_parsePayload(self, data) ==
  LET r1 == readOctetString(data, 0, PUBKEY_LENGTH)
      s1 == Ed25519_setPublicKey(self, Buffer(r1.value))
      r2 == readOctetString(data, r1.pos, SIGNATURE_LENGTH)
      s2 == Ed25519_setSignature(s1.self, Buffer(r2.value))
  IN IF ~r1.ok THEN [self |-> self, outcome |-> "ParseError", pos |-> r1.pos, minimal |-> TRUE]
     ELSE IF s1.outcome # "ok"
          THEN [self |-> s1.self, outcome |-> s1.outcome, pos |-> r1.pos, minimal |-> TRUE]
     ELSE IF ~r2.ok
          THEN [self |-> s1.self, outcome |-> "ParseError", pos |-> r2.pos, minimal |-> TRUE]
     ELSE [self |-> s2.self, outcome |-> s2.outcome, pos |-> r2.pos, minimal |-> TRUE]

\* Writer.writeOctetString(buffer, length) on a target holding the bytes out:
\* reading .length of null is a TypeError, a length mismatch an Error
writeOctetString(out, buffer, length) ==
  IF ~IsBuffer(buffer) THEN [outcome |-> "TypeError", out |-> out]
  ELSE IF Len(buffer.bytes) # length THEN [outcome |-> "Error", out |-> out]
  ELSE [outcome |-> "ok", out |-> out \o buffer.bytes]

Ed25519_writePayload(self, out) ==
  LET w1 == writeOctetString(out, self.publicKey, PUBKEY_LENGTH)
  IN IF w1.outcome # "ok" THEN w1
     ELSE writeOctetString(w1.out, self.signature, SIGNATURE_LENGTH)

Ed25519_calculateMaxFulfillmentLength(self) ==
  [outcome |-> "ok", size |-> FULFILLMENT_LENGTH]

Ed25519_validate(self, message) ==
  IF ~IsBuffer(message) THEN [outcome |-> "TypeError", ret |-> "none"]
  ELSE LET result == Ed25519Verify(message, self.signature, self.publicKey)
       IN IF result = "throw" THEN [outcome |-> "Error", ret |-> "none"]
          ELSE IF result # "true" THEN [outcome |-> "ValidationError", ret |-> "none"]
          ELSE [outcome |-> "ok", ret |-> "true"]

(***************************************************************************)
(* Base class Fulfillment and the high-level API (lib/fulfillment.js,      *)
(* lib/condition.js, index.js), for the two signature types.               *)
(***************************************************************************)
NoCondition == [type_id |-> 0 - 1, bitmask |-> 0, hash |-> Null, max_fulfillment_length |-> 0]

generateHash(tid, self) ==
  IF tid = RSA_TYPE_ID THEN RsaSha256_generateHash(self) ELSE Ed25519_generateHash(self)

calculateMaxFulfillmentLength(tid, self) ==
  IF tid = RSA_TYPE_ID THEN RsaSha256_calculateMaxFulfillmentLength(self)
  ELSE Ed25519_calculateMaxFulfillmentLength(self)

writePayload(tid, self, out) ==
  IF tid = RSA_TYPE_ID THEN RsaSha256_writePayload(self, out) ELSE Ed25519_writePayload(self, out)

parsePayload(tid, self, data) ==
  IF tid = RSA_TYPE_ID THEN RsaSha256_parsePayload(self, data) ELSE Ed25519_parsePayload(self, data)

validate(tid, self, message) ==
  IF tid = RSA_TYPE_ID THEN RsaSha256_validate(self, message) ELSE Ed25519_validate(self, message)

\* Fulfillment.getCondition
getCondition(tid, self) ==
  LET h == generateHash(tid, self)
      m == calculateMaxFulfillmentLength(tid, self)
  IN IF h.outcome # "ok" THEN [outcome |-> h.outcome, cond |-> NoCondition]
     ELSE IF m.outcome # "ok" THEN [outcome |-> m.outcome, cond |-> NoCondition]
     ELSE [outcome |-> "ok",
           cond |-> [type_id |-> tid,
                     bitmask |-> IF tid = RSA_TYPE_ID THEN RSA_FEATURE_BITMASK
                                 ELSE ED_FEATURE_BITMASK,
                     hash |-> h.hash,
                     max_fulfillment_length |-> m.size]]

\* a fulfillment URI cf:<type>:<payload>, as its type and payload bytes
FulfillmentUri(tid, payload) == [type_id |-> tid, payload |-> payload]

\* validateFulfillment(fulfillmentUri, conditionUri, message)
validateFulfillment(fUri, cUri, message) ==
  LET fresh == IF fUri.type_id = RSA_TYPE_ID THEN NewRsaSha256 ELSE NewEd25519
      p == parsePayload(fUri.type_id, fresh, fUri.payload)
      c == getCondition(fUri.type_id, p.self)
  IN IF ~IsBuffer(message) THEN [outcome |-> "Error", ret |-> "none"]
     ELSE IF p.outcome # "ok" THEN [outcome |-> p.outcome, ret |-> "none"]
     ELSE IF c.outcome # "ok" THEN [outcome |-> c.outcome, ret |-> "none"]
     ELSE IF c.cond # cUri THEN [outcome |-> "ValidationError", ret |-> "none"]
     ELSE IF Len(fUri.payload) > cUri.max_fulfillment_length
          THEN [outcome |-> "ValidationError", ret |-> "none"]
     ELSE validate(fUri.type_id, p.self, message)

\* validateFulfillment(f.serializeUri(), f.getConditionUri(), message)
validateOwnFulfillment(tid, self, message) ==
  LET w == writePayload(tid, self, <<>>)
      c == getCondition(tid, self)
      r == IF w.outcome # "ok" THEN [outcome |-> w.outcome, ret |-> "none"]
           ELSE IF c.outcome # "ok" THEN [outcome |-> c.outcome, ret |-> "none"]
           ELSE validateFulfillment(FulfillmentUri(tid, w.out), c.cond, message)
  IN [outcome |-> r.outcome, ret |-> r.ret, out |-> w.out, cond |-> c.cond]

(***************************************************************************)
(* Inputs.                                                                 *)
(***************************************************************************)
Messages == {Buffer(Buf(k, 97)) : k \in 0..MaxMsgLen}

\* lengths around the limits of setPublicModulus and of the one-byte length
ModLens == {MIN_MODULUS_LENGTH - 1, MIN_MODULUS_LENGTH, 255, 256,
            MAX_MODULUS_LENGTH, MAX_MODULUS_LENGTH + 1}

ModulusInputs ==
  {Buffer(Buf(n, 1)) : n \in ModLens}
  \cup {Buffer(Buf(MIN_MODULUS_LENGTH, f)) : f \in Fills}
  \cup {Buffer(LeadingZero(MIN_MODULUS_LENGTH, 1)), Buffer(<<>>), NotABuffer}

RsaSignatureInputs ==
  {Buffer(Buf(n, 2)) : n \in {0, MIN_MODULUS_LENGTH - 1, MIN_MODULUS_LENGTH,
                              MIN_MODULUS_LENGTH + 1, 255, MAX_MODULUS_LENGTH}}
  \cup {NotABuffer}

\* private keys: a 512-bit key, a 1024-bit key, a 2048-bit key, and a string
\* that is no PEM key
PrivateKeys ==
  {Pem(Buf(n, 1)) : n \in {MIN_MODULUS_LENGTH \div 2, MIN_MODULUS_LENGTH, 256}}
  \cup {NotABuffer}

RsaPayloadInputs ==
  LET m1 == Buf(MIN_MODULUS_LENGTH, 1)
      good == VarOctetString(m1) \o VarOctetString(Buf(MIN_MODULUS_LENGTH, 2))
  IN {good \o Buf(t, 0) : t \in 0..MaxTrail}
     \cup {VarOctetString(m1) \o VarOctetString(Buf(MIN_MODULUS_LENGTH + 1, 2)),
           VarOctetString(Buf(256, 1)) \o VarOctetString(Buf(256, 2)),
           <<>>,
           VarOctetString(m1),
           SubSeq(good, 1, Len(good) - 1),
           VarOctetString(Buf(MIN_MODULUS_LENGTH - 1, 1))
             \o VarOctetString(Buf(MIN_MODULUS_LENGTH - 1, 2)),
           VarOctetString(LeadingZero(MIN_MODULUS_LENGTH, 1))
             \o VarOctetString(Buf(MIN_MODULUS_LENGTH, 2)),
           <<130, 0, 128>> \o m1 \o VarOctetString(Buf(MIN_MODULUS_LENGTH, 2))}

PublicKeyInputs ==
  {Buffer(Buf(PUBKEY_LENGTH, f)) : f \in Fills}
  \cup {Buffer(Buf(PUBKEY_LENGTH - 1, 1)), Buffer(Buf(PUBKEY_LENGTH + 1, 1)), NotABuffer}

EdSignatureInputs ==
  {Buffer(Buf(SIGNATURE_LENGTH, f)) : f \in Fills}
  \cup {Buffer(Buf(SIGNATURE_LENGTH - 1, 1)), Buffer(Buf(SIGNATURE_LENGTH + 1, 1)),
        NotABuffer}

Seeds ==
  {Buffer(Buf(32, f)) : f \in Fills} \cup {Buffer(Buf(31, 1)), NotABuffer}

EdPayloadInputs ==
  {Buf(PUBKEY_LENGTH, f) \o Buf(SIGNATURE_LENGTH, 2) \o Buf(t, 0) :
     f \in Fills, t \in 0..MaxTrail}
  \cup {<<>>, Buf(PUBKEY_LENGTH, 1), Buf(FULFILLMENT_LENGTH - 1, 1)}

(***************************************************************************)
(* State machine.  last records the latest call: its name, arguments,      *)
(* outcome and results.                                                    *)
(***************************************************************************)
NoCall ==
  [op |-> "new", outcome |-> "ok", arg |-> Null, msg |-> Null, ret |-> "none",
   size |-> 0, out |-> <<>>, pos |-> 0, minimal |-> TRUE, cond |-> NoCondition]

Call(op, outcome) == [NoCall EXCEPT !.op = op, !.outcome = outcome]

IsRsa == typeId = RSA_TYPE_ID
IsEd == typeId = ED_TYPE_ID

RsaSelf == [modulus |-> modulus, signature |-> signature]
EdSelf == [publicKey |-> publicKey, signature |-> signature]
Self == IF IsRsa THEN RsaSelf ELSE EdSelf

Init ==
  /\ typeId \in {RSA_TYPE_ID, ED_TYPE_ID}
  /\ modulus = Null
  /\ publicKey = Null
  /\ signature = Null
  /\ last = NoCall

SetPublicModulus(m) ==
  /\ IsRsa
  /\ LET r == RsaSha256_setPublicModulus(RsaSelf, m)
     IN /\ modulus' = r.self.modulus
        /\ signature' = r.self.signature
        /\ last' = [Call("setPublicModulus", r.outcome) EXCEPT !.arg = m]
  /\ UNCHANGED <<typeId, publicKey>>

RsaSetSignature(sig) ==
  /\ IsRsa
  /\ LET r == RsaSha256_setSignature(RsaSelf, sig)
     IN /\ modulus' = r.self.modulus
        /\ signature' = r.self.signature
        /\ last' = [Call("setSignature", r.outcome) EXCEPT !.arg = sig]
  /\ UNCHANGED <<typeId, publicKey>>

RsaSignAction(message, privateKey, salt) ==
  /\ IsRsa
  /\ LET r == RsaSha256_sign(RsaSelf, message, privateKey, salt)
     IN /\ modulus' = r.self.modulus
        /\ signature' = r.self.signature
        /\ last' = [Call("sign", r.outcome) EXCEPT !.arg = privateKey, !.msg = message]
  /\ UNCHANGED <<typeId, publicKey>>

SetPublicKey(pk) ==
  /\ IsEd
  /\ LET r == Ed25519_setPublicKey(EdSelf, pk)
     IN /\ publicKey' = r.self.publicKey
        /\ signature' = r.self.signature
        /\ last' = [Call("setPublicKey", r.outcome) EXCEPT !.arg = pk]
  /\ UNCHANGED <<typeId, modulus>>

EdSetSignature(sig) ==
  /\ IsEd
  /\ LET r == Ed25519_setSignature(EdSelf, sig)
     IN /\ publicKey' = r.self.publicKey
        /\ signature' = r.self.signature
        /\ last' = [Call("setSignature", r.outcome) EXCEPT !.arg = sig]
  /\ UNCHANGED <<typeId, modulus>>

EdSignAction(message, privateKey) ==
  /\ IsEd
  /\ LET r == Ed25519_sign(EdSelf, message, privateKey)
     IN /\ publicKey' = r.self.publicKey
        /\ signature' = r.self.signature
        /\ last' = [Call("sign", r.outcome) EXCEPT !.arg = privateKey, !.msg = message]
  /\ UNCHANGED <<typeId, modulus>>

\* the payloads parsePayload may be given: the prepared ones, and the bytes
\* the latest successful writePayload produced
PayloadInputs ==
  (IF IsRsa THEN RsaPayloadInputs ELSE EdPayloadInputs)
  \cup (IF last.op = "writePayload" /\ last.outcome = "ok" THEN {last.out} ELSE {})

ParsePayload(data) ==
  /\ LET r == parsePayload(typeId, Self, data)
     IN /\ modulus' = IF IsRsa THEN r.self.modulus ELSE modulus
        /\ publicKey' = IF IsEd THEN r.self.publicKey ELSE publicKey
        /\ signature' = r.self.signature
        /\ last' = [Call("parsePayload", r.outcome) EXCEPT
                      !.arg = Buffer(data), !.pos = r.pos, !.minimal = r.minimal]
  /\ UNCHANGED typeId

WritePayload ==
  /\ LET r == writePayload(typeId, Self, <<>>)
     IN last' = [Call("writePayload", r.outcome) EXCEPT !.out = r.out]
  /\ UNCHANGED <<typeId, modulus, publicKey, signature>>

CalculateMaxFulfillmentLength ==
  /\ LET r == calculateMaxFulfillmentLength(typeId, Self)
     IN last' = [Call("calculateMaxFulfillmentLength", r.outcome) EXCEPT !.size = r.size]
  /\ UNCHANGED <<typeId, modulus, publicKey, signature>>

GenerateHash ==
  /\ LET r == generateHash(typeId, Self)
     IN last' = [Call("generateHash", r.outcome) EXCEPT !.arg = r.hash]
  /\ UNCHANGED <<typeId, modulus, publicKey, signature>>

GetCondition ==
  /\ LET r == getCondition(typeId, Self)
     IN last' = [Call("getCondition", r.outcome) EXCEPT !.cond = r.cond]
  /\ UNCHANGED <<typeId, modulus, publicKey, signature>>

Validate(message) ==
  /\ LET r == validate(typeId, Self, message)
     IN last' = [Call("validate", r.outcome) EXCEPT !.msg = message, !.ret = r.ret]
  /\ UNCHANGED <<typeId, modulus, publicKey, signature>>

ValidateOwnFulfillment(message) ==
  /\ LET r == validateOwnFulfillment(typeId, Self, message)
     IN last' = [Call("validateFulfillment", r.outcome) EXCEPT
                   !.msg = message, !.ret = r.ret, !.out = r.out, !.cond = r.cond]
  /\ UNCHANGED <<typeId, modulus, publicKey, signature>>

Next ==
  \/ \E m \in ModulusInputs : SetPublicModulus(m)
  \/ \E s \in RsaSignatureInputs : RsaSetSignature(s)
  \/ \E msg \in Messages, k \in PrivateKeys, salt \in Salts : RsaSignAction(msg, k, salt)
  \/ \E pk \in PublicKeyInputs : SetPublicKey(pk)
  \/ \E s \in EdSignatureInputs : EdSetSignature(s)
  \/ \E msg \in Messages \cup {NotABuffer}, k \in Seeds : EdSignAction(msg, k)
  \/ \E data \in PayloadInputs : ParsePayload(data)
  \/ WritePayload
  \/ CalculateMaxFulfillmentLength
  \/ GenerateHash
  \/ GetCondition
  \/ \E msg \in Messages \cup {NotABuffer} : Validate(msg)
  \/ \E msg \in Messages : ValidateOwnFulfillment(msg)

Spec == Init /\ [][Next]_vars

(***************************************************************************)
(* Properties.                                                             *)
(***************************************************************************)
Fresh == IF IsRsa THEN NewRsaSha256 ELSE NewEd25519

\* C1: whenever writePayload succeeds, the number of bytes it wrote is at
\* most calculateMaxFulfillmentLength() of the same fulfillment.
C1_LengthBound ==
  (last.op = "writePayload" /\ last.outcome = "ok") =>
    LET m == calculateMaxFulfillmentLength(typeId, Self)
    IN m.outcome = "ok" /\ Len(last.out) <= m.size

\* C2 (as claimed): parsePayload of the bytes writePayload wrote succeeds and
\* restores the same fields; and writePayload after every successful
\* parsePayload reproduces exactly the payload parsePayload was given.
C2_RoundTrip_Original ==
  /\ (last.op = "writePayload" /\ last.outcome = "ok") =>
       LET p == parsePayload(typeId, Fresh, last.out)
       IN p.outcome = "ok" /\ p.self = Self
  /\ (last.op = "parsePayload" /\ last.outcome = "ok") =>
       LET w == writePayload(typeId, Self, <<>>)
       IN w.outcome = "ok" /\ w.out = last.arg.bytes

\* C2 (amended): parsePayload of the bytes writePayload wrote succeeds and
\* restores the same fields; and writePayload after a successful parsePayload
\* reproduces the payload when parsePayload consumed all of it (no trailing
\* bytes) and its length prefixes were the shortest ones.
C2_RoundTrip ==
  /\ (last.op = "writePayload" /\ last.outcome = "ok") =>
       LET p == parsePayload(typeId, Fresh, last.out)
       IN p.outcome = "ok" /\ p.self = Self
  /\ (/\ last.op = "parsePayload" /\ last.outcome = "ok"
      /\ last.pos = Len(last.arg.bytes) /\ last.minimal) =>
       LET w == writePayload(typeId, Self, <<>>)
       IN w.outcome = "ok" /\ w.out = last.arg.bytes

\* an RSA payload was parsed whole and re-serializes to itself
C2_Witness ==
  /\ IsRsa /\ last.op = "parsePayload" /\ last.outcome = "ok"
  /\ last.pos = Len(last.arg.bytes) /\ last.minimal
  /\ Len(signature.bytes) = MIN_MODULUS_LENGTH + 1
  /\ writePayload(typeId, Self, <<>>).out = last.arg.bytes

\* C7: whenever modulus and signature of an RSA fulfillment are both set,
\* the signature is as long as the modulus.
C7_SignatureLength ==
  (IsRsa /\ Truthy(modulus) /\ Truthy(signature)) =>
    Len(signature.bytes) = Len(modulus.bytes)

\* C8: a parsePayload call that fails leaves every field of the fulfillment
\* as it was before the call.
C8_ParseFailureNoSideEffect ==
  [][(last'.op = "parsePayload" /\ last'.outcome # "ok") =>
       UNCHANGED <<modulus, publicKey, signature>>]_vars

\* C3: after a successful Ed25519 sign(message, seed) - which every Buffer
\* message and 32-byte seed gets - validate(message) returns true and
\* validateFulfillment(serializeUri(), getConditionUri(), message) returns true.
C3_EdSignThenValidate ==
  (IsEd /\ last.op = "sign") =>
    /\ (IsBuffer(last.msg) /\ IsBuffer(last.arg) /\ Len(last.arg.bytes) = 32)
         => last.outcome = "ok"
    /\ last.outcome = "ok" =>
         /\ validate(typeId, Self, last.msg) = [outcome |-> "ok", ret |-> "true"]
         /\ validateOwnFulfillment(typeId, Self, last.msg).outcome = "ok"
         /\ validateOwnFulfillment(typeId, Self, last.msg).ret = "true"

\* an Ed25519 fulfillment has signed a non-empty message
C3_Witness ==
  /\ IsEd /\ last.op = "sign" /\ last.outcome = "ok"
  /\ Len(last.msg.bytes) > 0
  /\ publicKey = Buffer(Ed25519PublicKey(last.arg.bytes))

\* C4 (as claimed): after every successful RSA sign(message, privateKey),
\* whatever preceded it, validate(message) returns true and
\* validateFulfillment(serializeUri(), getConditionUri(), message) returns true.
C4_RsaSignThenValidate_Original ==
  (IsRsa /\ last.op = "sign" /\ last.outcome = "ok") =>
    /\ validate(typeId, Self, last.msg) = [outcome |-> "ok", ret |-> "true"]
    /\ validateOwnFulfillment(typeId, Self, last.msg).ret = "true"

\* C4 (amended): after a successful RSA sign(message, privateKey) that leaves
\* the fulfillment with the private key's own modulus (the modulus was unset
\* before the call, or was already that modulus), validate(message) returns
\* true and validateFulfillment(serializeUri(), getConditionUri(), message)
\* returns true.
C4_RsaSignThenValidate ==
  (/\ IsRsa /\ last.op = "sign" /\ last.outcome = "ok"
   /\ modulus = modulusFromPrivateKey(last.arg)) =>
    /\ validate(typeId, Self, last.msg) = [outcome |-> "ok", ret |-> "true"]
    /\ validateOwnFulfillment(typeId, Self, last.msg).outcome = "ok"
    /\ validateOwnFulfillment(typeId, Self, last.msg).ret = "true"

\* an RSA fulfillment has signed with the key its modulus belongs to
C4_Witness ==
  /\ IsRsa /\ last.op = "sign" /\ last.outcome = "ok"
  /\ modulus = modulusFromPrivateKey(last.arg)
  /\ Len(signature.bytes) = 256

\* C5: the condition of an Ed25519 fulfillment is derivable as soon as the
\* public key is set and is (4, 0x20, public key, 96) whatever the signature;
\* after sign, the fulfillment parsed from the signer's payload derives the
\* same condition as the signer.
C5_EdCondition ==
  /\ (IsEd /\ Truthy(publicKey)) =>
       getCondition(typeId, Self) =
         [outcome |-> "ok",
          cond |-> [type_id |-> 4, bitmask |-> 32, hash |-> publicKey,
                    max_fulfillment_length |-> 96]]
  /\ (IsEd /\ last.op = "sign" /\ last.outcome = "ok") =>
       LET w == writePayload(typeId, Self, <<>>)
           p == parsePayload(typeId, NewEd25519, w.out)
       IN /\ w.outcome = "ok" /\ p.outcome = "ok"
          /\ getCondition(typeId, p.self) = getCondition(typeId, Self)
          /\ getCondition(typeId, Self).cond.hash = Buffer(Ed25519PublicKey(last.arg.bytes))

\* the condition was derived from an Ed25519 fulfillment holding only a public key
C5_Witness ==
  /\ IsEd /\ last.op = "getCondition" /\ last.outcome = "ok"
  /\ Truthy(publicKey) /\ ~Truthy(signature)
  /\ last.cond.hash = publicKey

ValidModulus(m) ==
  /\ IsBuffer(m)
  /\ Len(m.bytes) >= 128 /\ Len(m.bytes) <= 512
  /\ m.bytes[1] # 0

\* C6: setPublicModulus(m) succeeds exactly when m is a Buffer of 128 to 512
\* bytes whose first byte is not zero; a rejected call leaves the stored
\* modulus unchanged; in every reachable state the modulus is unset or
\* satisfies these constraints.
C6_ModulusInvariant ==
  /\ (modulus = Null \/ ValidModulus(modulus))
  /\ [][/\ IsRsa => (modulus' = Null \/ ValidModulus(modulus'))
        /\ last'.op = "setPublicModulus" =>
             /\ last'.outcome = "ok" <=> ValidModulus(last'.arg)
             /\ last'.outcome = "ok" => modulus' = last'.arg
             /\ last'.outcome # "ok" => modulus' = modulus]_vars

\* setPublicModulus has rejected a modulus while another one was stored
C6_Witness ==
  /\ IsRsa /\ last.op = "setPublicModulus" /\ last.outcome = "Error"
  /\ Len(last.arg.bytes) = 513
  /\ Truthy(modulus)

\* what the verification primitive says of (key, message, signature)
PrimitiveAccepts(message) ==
  /\ IsBuffer(message)
  /\ IF IsRsa THEN RsaVerify(modulus, message, signature) = "true"
     ELSE Ed25519Verify(message, signature, publicKey) = "true"

PrimitiveRejects(message) ==
  /\ IsBuffer(message)
  /\ IF IsRsa THEN RsaVerify(modulus, message, signature) = "false"
     ELSE Ed25519Verify(message, signature, publicKey) = "false"

\* C9: validate(message) returns true exactly when the verification
\* primitive accepts; otherwise it raises (ValidationError when the primitive
\* rejects) and returns nothing; it changes no field.
C9_ValidateTrueOrRaise ==
  [][last'.op = "validate" =>
       /\ last'.ret = "true" <=> PrimitiveAccepts(last'.msg)
       /\ last'.ret = "true" <=> last'.outcome = "ok"
       /\ last'.ret \in {"true", "none"}
       /\ PrimitiveRejects(last'.msg) => last'.outcome = "ValidationError"
       /\ UNCHANGED <<modulus, publicKey, signature>>]_vars

\* validate has raised on a signature the primitive rejects
C9_Witness ==
  /\ IsRsa /\ last.op = "validate" /\ last.outcome = "ValidationError"
  /\ last.ret = "none" /\ PrimitiveRejects(last.msg)

\* C11: writePayload with the signature or the modulus / public key unset,
\* generateHash with the modulus / public key unset, and the RSA
\* calculateMaxFulfillmentLength with the modulus unset, fail with
\* MissingDataError, and writePayload has written no byte before it fails.
C11_MissingData ==
  LET keyUnset == IF IsRsa THEN ~Truthy(modulus) ELSE ~Truthy(publicKey)
  IN /\ (last.op = "writePayload" /\ (keyUnset \/ ~Truthy(signature))) =>
          (last.outcome = "MissingDataError" /\ last.out = <<>>)
     /\ (last.op = "generateHash" /\ keyUnset) => last.outcome = "MissingDataError"
     /\ (last.op = "calculateMaxFulfillmentLength" /\ IsRsa /\ keyUnset) =>
          last.outcome = "MissingDataError"

\* an argument the Ed25519 call named op must reject
EdBadArgument(op, arg, msg) ==
  \/ op = "setPublicKey" /\ (~IsBuffer(arg) \/ Len(arg.bytes) # 32)
  \/ op = "setSignature" /\ (~IsBuffer(arg) \/ Len(arg.bytes) # 64)
  \/ op = "sign" /\ (~IsBuffer(msg) \/ ~IsBuffer(arg) \/ Len(arg.bytes) # 32)

\* C12: an Ed25519 setPublicKey, setSignature or sign call given a value that
\* is no Buffer (the message of sign included) or a Buffer of the wrong
\* length fails with an invalid-argument error (TypeError or Error) and
\* leaves the public key and the signature unchanged.
C12_EdInvalidArgument ==
  [][(IsEd /\ EdBadArgument(last'.op, last'.arg, last'.msg)) =>
       /\ last'.outcome \in {"TypeError", "Error"}
       /\ UNCHANGED <<publicKey, signature>>]_vars

\* C13: for a stored modulus of n bytes calculateMaxFulfillmentLength() is
\* 2 * (n + 2) when n <= 255 and 2 * (n + 3) when n >= 256 (260 for n = 128),
\* and it is the exact length of the payload written when the signature has
\* n bytes.
C13_RsaMaxFulfillmentLength ==
  (IsRsa /\ Truthy(modulus)) =>
    LET n == Len(modulus.bytes)
        m == RsaSha256_calculateMaxFulfillmentLength(RsaSelf)
    IN /\ m.outcome = "ok"
       /\ m.size = IF n <= 255 THEN 2 * (n + 2) ELSE 2 * (n + 3)
       /\ n = 128 => m.size = 260
       /\ last.op = "calculateMaxFulfillmentLength" => last.size = m.size
       /\ (Truthy(signature) /\ Len(signature.bytes) = n) =>
            LET w == RsaSha256_writePayload(RsaSelf, <<>>)
            IN w.outcome = "ok" /\ Len(w.out) = m.size

\* the maximum was computed for a 256-byte modulus with a 256-byte signature
C13_Witness ==
  /\ IsRsa /\ last.op = "calculateMaxFulfillmentLength" /\ last.outcome = "ok"
  /\ Len(modulus.bytes) = 256 /\ last.size = 518
  /\ Truthy(signature) /\ Len(signature.bytes) = 256

\* C14: an RSA sign(message, privateKey) on a fulfillment whose modulus is
\* set leaves the modulus, and with it the hash payload and the maximum
\* fulfillment length of the derived condition, as it was, even
\* when the private key has another modulus, and changes nothing but the
\* signature; on a fulfillment whose modulus is unset it stores the private
\* key's modulus if setPublicModulus accepts it, and otherwise fails and
\* stores neither a modulus nor a signature.
C14_SignKeepsPresetModulus ==
  [][(IsRsa /\ last'.op = "sign") =>
       LET after == [modulus |-> modulus', signature |-> signature']
           keyModulus == modulusFromPrivateKey(last'.arg)
       IN /\ Truthy(modulus) =>
               /\ modulus' = modulus
               /\ RsaSha256_writeHashPayload(after, <<>>)
                    = RsaSha256_writeHashPayload(RsaSelf, <<>>)
               /\ RsaSha256_calculateMaxFulfillmentLength(after)
                    = RsaSha256_calculateMaxFulfillmentLength(RsaSelf)
               /\ last'.outcome # "ok" => signature' = signature
          /\ (~Truthy(modulus) /\ last'.arg.kind = "pem") =>
               IF ValidModulus(keyModulus)
               THEN last'.outcome = "ok" /\ modulus' = keyModulus /\ Truthy(signature')
               ELSE /\ last'.outcome # "ok"
                    /\ modulus' = Null
                    /\ signature' = signature]_vars

\* sign has succeeded on a fulfillment that keeps a modulus other than the key's
C14_Witness ==
  /\ IsRsa /\ last.op = "sign" /\ last.outcome = "ok"
  /\ Truthy(modulus) /\ modulus # modulusFromPrivateKey(last.arg)
  /\ Len(signature.bytes) # Len(modulus.bytes)

====
